---- MODULE Spec2Model ----
(***************************************************************************)
(* Model of two utilities of the multisurv repository:                     *)
(*   - values_are_equivalent of clinical_compare.py, the cell comparator   *)
(*     of compare_tsv_tables;                                              *)
(*   - OfflinePatcher of src/patcher.py, the driver that draws WSI patches *)
(*     and saves them as PNG files.                                        *)
(* A Python str is a sequence of one-character strings.                    *)
(***************************************************************************)
EXTENDS Integers, Sequences, FiniteSets, TLC

VARIABLES
    val1, val2,          \* the two cell values handed to values_are_equivalent
    called,              \* values_are_equivalent has returned
    result,              \* what it returned (FALSE before the call)
    row_differences,     \* compare_tsv_tables: the differences recorded for the cell
    slide_files,         \* OfflinePatcher.slide_files
    random_tissue_patch, \* PatchGenerator.random_tissue_patch
    dir_exists,          \* whether target_dir exists on disk
    n,                   \* the argument of run
    pc,                  \* position of run
    si,                  \* index of the slide of the outer for loop
    di,                  \* i of "for i in range(n)"
    filename,            \* self.filename (None until a draw succeeded)
    patch,               \* self.patch (Unset until a draw was assigned)
    drawn,               \* the local variable patch of run, between draw and save
    disk,                \* files of the file system: path -> patch
    writes,              \* every completed _save, in order
    attempts,            \* per slide: draws attempted
    failures,            \* per slide: draws or saves that raised
    successes,           \* per slide: draws that returned a patch
    interrupted,         \* a KeyboardInterrupt was delivered to run
    exc,                 \* the exception that left run ("none" if none)
    gen_i,               \* PatchGenerator.i, the cursor over slide_files
    lock,                \* PatchGenerator.lock: 0 when free, else the caller holding it
    tpc,                 \* per caller: position in __next__
    tres,                \* per caller: the local variable result
    tidx,                \* per caller: the value of self.i its draw used
    tout,                \* per caller: how its latest call ended
    handed,              \* every value returned by __next__, in order
    attempted,           \* cursor values drawn at since the latest reset
    skipped,             \* cursor values whose draw raised since the latest reset
    passes,              \* number of StopIteration resets so far
    calls,               \* number of __next__ calls started
    table1, table2,      \* the two TSV tables read by compare_tsv_tables
    cmp_pc,              \* position of compare_tsv_tables
    common_ids, only_in_df1, only_in_df2,
    processed,           \* the common ids the loop of line 99 has been through
    differences_found,   \* the list of line 97
    results              \* the results dictionary

equivVars == <<val1, val2, called, result, row_differences>>
runVars == <<slide_files, random_tissue_patch, dir_exists, n, pc, si, di,
             filename, patch, drawn, disk, writes, attempts, failures,
             successes, interrupted, exc>>
genVars == <<gen_i, lock, tpc, tres, tidx, tout, handed, attempted, skipped,
             passes, calls>>
tsvVars == <<table1, table2, cmp_pc, common_ids, only_in_df1, only_in_df2,
             processed, differences_found, results>>
vars == <<equivVars, runVars, genVars, tsvVars>>

None == <<"None">>
\* an attribute or local that holds no patch (patches are numbered from slide 1)
Unset == [slide |-> 0, draw |-> 0]

----------------------------------------------------------------------------
(* The parts of the program a specification leaves untouched *)

NoTable == [cols |-> {}, rows |-> <<>>]
NoResults == [total_common |-> 0, only_in_table1 |-> {}, only_in_table2 |-> {},
              differences |-> <<>>, identical_rows |-> 0]

GenIdle ==
    /\ gen_i = 0 /\ lock = 0 /\ tpc = <<>> /\ tres = <<>> /\ tidx = <<>>
    /\ tout = <<>> /\ handed = <<>> /\ attempted = <<>> /\ skipped = {}
    /\ passes = 0 /\ calls = 0

TsvIdle ==
    /\ table1 = NoTable /\ table2 = NoTable /\ cmp_pc = "idle"
    /\ common_ids = {} /\ only_in_df1 = {} /\ only_in_df2 = {}
    /\ processed = {} /\ differences_found = <<>> /\ results = NoResults

----------------------------------------------------------------------------
(* Bounds *)
MaxLen == 2        \* longest enumerated cell value
MaxSlides == 2     \* longest slide list
MaxN == 2          \* largest n handed to run
FracDigits == 8    \* decimal places a parsed float is held to

----------------------------------------------------------------------------
(* Python str primitives *)

UpperChars == <<"A","B","C","D","E","F","G","H","I","J","K","L","M",
                "N","O","P","Q","R","S","T","U","V","W","X","Y","Z">>
LowerChars == <<"a","b","c","d","e","f","g","h","i","j","k","l","m",
                "n","o","p","q","r","s","t","u","v","w","x","y","z">>

LowerChar(c) ==
    IF \E i \in 1..26 : UpperChars[i] = c
    THEN LowerChars[CHOOSE i \in 1..26 : UpperChars[i] = c]
    ELSE c

\* str.lower()
Lower(s) == [i \in 1..Len(s) |-> LowerChar(s[i])]

\* "s in t" for two str
Contains(s, t) ==
    \E i \in 0..(Len(t) - Len(s)) : SubSeq(t, i + 1, i + Len(s)) = s

----------------------------------------------------------------------------
(* float(str): the value is a record                                       *)
(*   [kind |-> "err"]                      ValueError                      *)
(*   [kind |-> "nan"], [kind |-> "inf", sign]                              *)
(*   [kind |-> "fin", sign, whole, frac]                                   *)
(*                           sign * (whole + frac / 10^FracDigits)         *)
(* The decimal value is kept exactly.  On the values compared here it      *)
(* decides abs(num1 - num2) < 1e-6 as the IEEE doubles do: no two of them  *)
(* differ by 1e-6 up to rounding unless one of them is zero, and x - 0 is  *)
(* exact.                                                                  *)

DigitChars == <<"0","1","2","3","4","5","6","7","8","9">>
IsDigit(c) == \E i \in 1..10 : DigitChars[i] = c
DigitVal(c) == (CHOOSE i \in 1..10 : DigitChars[i] = c) - 1
IsSpace(c) == c \in {" ", "\t", "\n"}

RECURSIVE Pow10(_)
Pow10(k) == IF k = 0 THEN 1 ELSE 10 * Pow10(k - 1)

RECURSIVE LStrip(_)
LStrip(s) == IF s # <<>> /\ IsSpace(Head(s)) THEN LStrip(Tail(s)) ELSE s
RECURSIVE RStrip(_)
RStrip(s) ==
    IF s # <<>> /\ IsSpace(s[Len(s)]) THEN RStrip(SubSeq(s, 1, Len(s) - 1)) ELSE s
Strip(s) == RStrip(LStrip(s))

AllDigits(s) == \A i \in 1..Len(s) : IsDigit(s[i])

\* leading zeros removed
RECURSIVE StripZeros(_)
StripZeros(s) == IF s # <<>> /\ Head(s) = "0" THEN StripZeros(Tail(s)) ELSE s

\* the natural number written by a digit string (at most 9 digits)
RECURSIVE DigitsVal(_)
DigitsVal(s) ==
    IF s = <<>> THEN 0
    ELSE 10 * DigitsVal(SubSeq(s, 1, Len(s) - 1)) + DigitVal(s[Len(s)])

IndexOf(s, cs) ==
    IF \E i \in 1..Len(s) : s[i] \in cs
    THEN CHOOSE i \in 1..Len(s) : s[i] \in cs /\ \A j \in 1..(i - 1) : s[j] \notin cs
    ELSE 0

\* the decimal part "ddd.ddd" : digits before and after the point
MantissaOk(s) ==
    LET p == IndexOf(s, {"."})
        ip == IF p = 0 THEN s ELSE SubSeq(s, 1, p - 1)
        fp == IF p = 0 THEN <<>> ELSE SubSeq(s, p + 1, Len(s))
    IN  AllDigits(ip) /\ AllDigits(fp) /\ Len(ip) + Len(fp) >= 1

\* the exponent part after e/E : optional sign and at least one digit
ExponentOk(s) ==
    LET body == IF s # <<>> /\ Head(s) \in {"+", "-"} THEN Tail(s) ELSE s
    IN  body # <<>> /\ AllDigits(body)
ExponentVal(s) ==
    IF s = <<>> THEN 0
    ELSE IF Head(s) = "-" THEN 0 - DigitsVal(Tail(s))
    ELSE IF Head(s) = "+" THEN DigitsVal(Tail(s))
    ELSE DigitsVal(s)

\* digs * 10^e10 as float() rounds it, where the model represents it: inf
\* on overflow (1e310 and above), zero on underflow, otherwise a value
\* below 10^9 with at most FracDigits decimal places.
Scaled(sign, digs, e10) ==
    LET sig == StripZeros(digs)
        top == Len(sig) + e10
    IN  CASE sig = <<>> -> [kind |-> "fin", sign |-> sign, whole |-> 0, frac |-> 0]
          [] sig # <<>> /\ top > 309 -> [kind |-> "inf", sign |-> sign]
          [] sig # <<>> /\ top < 0 - 324 ->
                [kind |-> "fin", sign |-> sign, whole |-> 0, frac |-> 0]
          [] sig # <<>> /\ top <= 9 /\ e10 >= 0 ->
                [kind |-> "fin", sign |-> sign,
                 whole |-> DigitsVal(sig) * Pow10(e10), frac |-> 0]
          [] sig # <<>> /\ top <= 9 /\ e10 < 0 /\ e10 >= 0 - FracDigits ->
                [kind |-> "fin", sign |-> sign,
                 whole |-> DigitsVal(sig) \div Pow10(0 - e10),
                 frac |-> (DigitsVal(sig) % Pow10(0 - e10)) * Pow10(FracDigits + e10)]

ParseFloat(s) ==
    LET t == Strip(s)
        sign == IF t # <<>> /\ Head(t) = "-" THEN 0 - 1 ELSE 1
        u == IF t # <<>> /\ Head(t) \in {"+", "-"} THEN Tail(t) ELSE t
        lu == Lower(u)
        ep == IndexOf(u, {"e", "E"})
        mp == IF ep = 0 THEN u ELSE SubSeq(u, 1, ep - 1)
        xp == IF ep = 0 THEN <<>> ELSE SubSeq(u, ep + 1, Len(u))
        p == IndexOf(mp, {"."})
        ip == IF p = 0 THEN mp ELSE SubSeq(mp, 1, p - 1)
        fp == IF p = 0 THEN <<>> ELSE SubSeq(mp, p + 1, Len(mp))
    IN  IF lu \in {<<"i","n","f">>, <<"i","n","f","i","n","i","t","y">>}
        THEN [kind |-> "inf", sign |-> sign]
        ELSE IF lu = <<"n","a","n">> THEN [kind |-> "nan"]
        ELSE IF ~MantissaOk(mp) \/ (ep # 0 /\ ~ExponentOk(xp)) THEN [kind |-> "err"]
        ELSE Scaled(sign, ip \o fp, ExponentVal(xp) - Len(fp))

\* line 27: the tolerance 1e-6, in units of 10^-FracDigits
Tolerance == Pow10(FracDigits - 6)

Abs(x) == IF x < 0 THEN 0 - x ELSE x

\* num1 - num2 of two finite values, in units of 10^-FracDigits; Far when
\* the whole parts are two or more apart (the values are then more than 1
\* apart and the difference is not computed)
Far == Pow10(FracDigits)
Diff(x, y) ==
    LET dw == x.sign * x.whole - y.sign * y.whole
        df == x.sign * x.frac - y.sign * y.frac
    IN  IF Abs(dw) >= 2 THEN Far ELSE dw * Pow10(FracDigits) + df

AbsDiffIsZero(x, y) ==
    x.kind = "fin" /\ y.kind = "fin" /\ Abs(Diff(x, y)) < 1
\* line 27: abs(num1 - num2) < 1e-6 ; any comparison with a NaN is False,
\* inf - inf is NaN and inf - x is inf, so only finite values pass.
AbsDiffBelowTolerance(x, y) ==
    x.kind = "fin" /\ y.kind = "fin" /\ Abs(Diff(x, y)) < Tolerance

\* lines 20-32: the try block; a ValueError skips the comparison
NumericallyClose(a, b) ==
    LET num1 == ParseFloat(a)
        num2 == ParseFloat(b)
    IN  num1.kind # "err" /\ num2.kind # "err" /\ AbsDiffBelowTolerance(num1, num2)

FirstContainsSecondOnly(a, b) == Contains(Lower(b), Lower(a))
\* lines 34-40
EitherContains(a, b) == Contains(Lower(a), Lower(b)) \/ Contains(Lower(b), Lower(a))

\* the numeric comparison returning its verdict instead of falling through
values_are_equivalent_numeric_verdict(a, b) ==
    IF a = b THEN TRUE
    ELSE IF Lower(a) = Lower(b) THEN TRUE
    ELSE IF ParseFloat(a).kind # "err" /\ ParseFloat(b).kind # "err"
         THEN NumericallyClose(a, b)
    ELSE EitherContains(a, b)

values_are_equivalent(a, b) ==
    IF a = b THEN TRUE
    ELSE IF Lower(a) = Lower(b) THEN TRUE
    ELSE IF NumericallyClose(a, b) THEN TRUE
    ELSE EitherContains(a, b)

----------------------------------------------------------------------------
(* The cell values the comparator is run on *)

Alphabet == {"0", "1", ".", "-", "a", "A"}

RECURSIVE StringsOfLen(_)
StringsOfLen(k) ==
    IF k = 0 THEN {<<>>}
    ELSE {Append(s, c) : s \in StringsOfLen(k - 1), c \in Alphabet}
Enumerated == UNION {StringsOfLen(k) : k \in 0..MaxLen}

Male == <<"M","a","l","e">>
Female == <<"F","e","m","a","l","e">>
TcgaStad == <<"T","C","G","A","-","S","T","A","D">>
Stad == <<"S","T","A","D">>
Float23486 == <<"2","3","4","8","6",".","0">>
Int23486 == <<"2","3","4","8","6">>
Examples ==
    {Male, Female, TcgaStad, Stad, Float23486, Int23486,
     <<"0">>, <<"1","e","-","6">>, <<"1","e","-","7">>, <<"2","E","-","7">>,
     <<"1","e","9","9","9">>, <<"i","n","f">>, <<"-","I","n","f">>,
     <<"n","a","n">>, <<" ","1">>, <<"+","1",".","0","0">>}
Pool == Enumerated \cup Examples

----------------------------------------------------------------------------
(* os.path and uuid primitives used by OfflinePatcher *)

LastIndexOf(s, c) ==
    IF \E i \in 1..Len(s) : s[i] = c
    THEN CHOOSE i \in 1..Len(s) : s[i] = c /\ \A j \in (i + 1)..Len(s) : s[j] # c
    ELSE 0

\* os.path.basename
Basename(path) == SubSeq(path, LastIndexOf(path, "/") + 1, Len(path))

\* os.path.splitext(path)[0]: cut at the last dot of the last component,
\* unless only dots precede it in that component
SplitextRoot(path) ==
    LET sepIndex == LastIndexOf(path, "/")
        dotIndex == LastIndexOf(path, ".")
    IN  IF dotIndex > sepIndex
           /\ \E k \in (sepIndex + 1)..(dotIndex - 1) : path[k] # "."
        THEN SubSeq(path, 1, dotIndex - 1)
        ELSE path

\* os.path.join of a directory and one component
Join(dir, name) ==
    IF name # <<>> /\ Head(name) = "/" THEN name
    ELSE IF dir = <<>> \/ dir[Len(dir)] = "/" THEN dir \o name
    ELSE dir \o <<"/">> \o name

HexChars == {"0","1","2","3","4","5","6","7","8","9","a","b","c","d","e","f"}

\* uuid.uuid4().hex: 32 hexadecimal characters, the 13th the version 4;
\* the random characters are drawn here from HexSample
UuidLen == 32
HexSample == {"0", "f"}
Uuid4Hex == {[i \in 1..UuidLen |-> IF i = 13 THEN "4" ELSE c] : c \in HexSample}

IdLen == 5
TargetDir == <<"t">>
FileFormat == <<"P","N","G">>

\* _compose_path with a single splitext
compose_path_one_splitext(fname, uuid) ==
    Join(TargetDir,
         SplitextRoot(fname) \o <<"_">> \o SubSeq(uuid, 1, IdLen)
            \o <<".">> \o Lower(FileFormat))

\* OfflinePatcher._compose_path, for self.filename = fname (a str) and the
\* uuid it draws
compose_path(fname, uuid) ==
    LET unique_id == SubSeq(uuid, 1, IdLen)
        slide_file_name == SplitextRoot(SplitextRoot(fname))
        unique_name == slide_file_name \o <<"_">> \o unique_id
                          \o <<".">> \o Lower(FileFormat)
    IN  Join(TargetDir, unique_name)

----------------------------------------------------------------------------
(* The slide lists OfflinePatcher is constructed with *)

StrSlide(path) == [kind |-> "str", path |-> path]
PairSlide(path, xml) == [kind |-> "pair", path |-> path, xml |-> xml]

SlideA == StrSlide(<<"a",".","s">>)
SlideADir == StrSlide(<<"d","/","a",".","u",".","s">>)
SlideB == StrSlide(<<"b",".","s">>)
SlidePair == PairSlide(<<"a",".","s">>, <<"a",".","x">>)
SlideEntries == {SlideA, SlideADir, SlideB, SlidePair}

RECURSIVE ListsOfLen(_)
ListsOfLen(k) ==
    IF k = 0 THEN {<<>>}
    ELSE {Append(l, e) : l \in ListsOfLen(k - 1), e \in SlideEntries}
SlideLists == UNION {ListsOfLen(k) : k \in 0..MaxSlides}

----------------------------------------------------------------------------
(* PatchGenerator: what one draw on a slide can produce *)

Raised(e) == [kind |-> "raise", exc |-> e]
Returned(f) == [kind |-> "tuple", filename |-> f]
Marker == [kind |-> "marker"]

\* _get_random_tissue_patch, lines 62-75
get_random_tissue_patch(selected_slide) ==
    LET wsi_file == selected_slide.path
    IN  {Raised("SlideError"), Raised("IndexError"), Returned(Basename(wsi_file))}

\* _get_random_patch, lines 43-60: "wsi_file, xml_file = selected_slide"
\* unpacks a pair, or a str of exactly two characters
get_random_patch(selected_slide) ==
    IF selected_slide.kind = "str" /\ Len(selected_slide.path) # 2
    THEN {Raised("ValueError")}
    ELSE LET wsi_file == IF selected_slide.kind = "pair" THEN selected_slide.path
                         ELSE <<selected_slide.path[1]>>
         IN  {Raised("SlideError"), Marker, Returned(Basename(wsi_file))}

\* lines 175-178 of run: the draw and the unpacking of its result into
\* (patch, self.filename); the marker str does not unpack into two names
DrawResults(selected_slide, tissue) ==
    LET rs == IF tissue THEN get_random_tissue_patch(selected_slide)
              ELSE get_random_patch(selected_slide)
    IN  {IF r.kind = "marker" THEN Raised("ValueError") ELSE r : r \in rs}

AllDrawResults ==
    UNION {DrawResults(e, t) : e \in SlideEntries, t \in BOOLEAN}

----------------------------------------------------------------------------
(* OfflinePatcher *)

NumSlides == Len(slide_files)
Zeros == [s \in 1..NumSlides |-> 0]

EquivIdle ==
    /\ val1 = <<>> /\ val2 = <<>> /\ called = FALSE /\ result = FALSE
    /\ row_differences = <<>>

RunIdle ==
    /\ slide_files = <<>> /\ random_tissue_patch = FALSE /\ dir_exists = TRUE
    /\ n = 0 /\ pc = "idle" /\ si = 0 /\ di = 0
    /\ filename = None /\ patch = Unset /\ drawn = Unset
    /\ disk = {} /\ writes = <<>>
    /\ attempts = <<>> /\ failures = <<>> /\ successes = <<>>
    /\ interrupted = FALSE /\ exc = "none"

\* before the constructor: the target directory may or may not exist
InitRun ==
    /\ EquivIdle /\ GenIdle /\ TsvIdle
    /\ slide_files \in SlideLists
    /\ random_tissue_patch \in BOOLEAN
    /\ dir_exists \in BOOLEAN
    /\ n = 0 /\ pc = "new" /\ si = 0 /\ di = 0
    /\ filename = None /\ patch = Unset /\ drawn = Unset
    /\ disk = {} /\ writes = <<>>
    /\ attempts = Zeros /\ failures = Zeros /\ successes = Zeros
    /\ interrupted = FALSE /\ exc = "none"

\* __init__, lines 129-131: the directory after the constructor
makedirs_if_missing(exists) == IF ~exists THEN TRUE ELSE exists

\* OfflinePatcher.__init__
Construct ==
    /\ pc = "new"
    /\ pc' = "constructed"
    /\ filename' = None
    /\ dir_exists' = makedirs_if_missing(dir_exists)
    /\ UNCHANGED <<equivVars, genVars, tsvVars, slide_files, random_tissue_patch, n, si, di, patch,
                   drawn, disk, writes, attempts, failures, successes,
                   interrupted, exc>>

\* run(k) up to the first iteration of "for slide_file in self.slide_files"
Run(k) ==
    /\ pc = "constructed"
    /\ n' = k
    /\ si' = 1
    /\ pc' = "slide"
    /\ UNCHANGED <<equivVars, genVars, tsvVars, slide_files, random_tissue_patch, dir_exists, di,
                   filename, patch, drawn, disk, writes, attempts, failures,
                   successes, interrupted, exc>>

\* lines 169-170: the next slide of the list, or the end of the loop; the
\* print of os.path.basename(slide_file) is outside the inner try
NextSlide ==
    /\ pc = "slide"
    /\ IF si > NumSlides
       THEN pc' = "done" /\ exc' = exc
       ELSE IF slide_files[si].kind # "str"
            THEN pc' = "raised" /\ exc' = "TypeError"
            ELSE pc' = "draw" /\ exc' = exc
    /\ di' = 0
    /\ UNCHANGED <<equivVars, genVars, tsvVars, slide_files, random_tissue_patch, dir_exists, n, si,
                   filename, patch, drawn, disk, writes, attempts, failures,
                   successes, interrupted>>

\* line 171 when range(n) is exhausted: on to the next slide
EndSlide ==
    /\ pc = "draw" /\ di >= n
    /\ si' = si + 1
    /\ pc' = "slide"
    /\ UNCHANGED <<equivVars, genVars, tsvVars, slide_files, random_tissue_patch, dir_exists, n, di,
                   filename, patch, drawn, disk, writes, attempts, failures,
                   successes, interrupted, exc>>

\* lines 184-186: break leaves the loop over range(n)
break_slide(slide, i) == [si |-> slide + 1, di |-> i, pc |-> "slide"]

\* lines 175-178 raise: caught by "except Exception", which breaks
DrawFail(r) ==
    /\ pc = "draw" /\ di < n
    /\ r \in DrawResults(slide_files[si], random_tissue_patch)
    /\ r.kind = "raise"
    /\ attempts' = [attempts EXCEPT ![si] = @ + 1]
    /\ failures' = [failures EXCEPT ![si] = @ + 1]
    /\ si' = break_slide(si, di).si
    /\ di' = break_slide(si, di).di
    /\ pc' = break_slide(si, di).pc
    /\ UNCHANGED <<equivVars, genVars, tsvVars, slide_files, random_tissue_patch, dir_exists, n,
                   filename, patch, drawn, disk, writes, successes,
                   interrupted, exc>>

\* lines 175-178 return: "patch, self.filename = ..."
DrawOk(r) ==
    /\ pc = "draw" /\ di < n
    /\ r \in DrawResults(slide_files[si], random_tissue_patch)
    /\ r.kind = "tuple"
    /\ attempts' = [attempts EXCEPT ![si] = @ + 1]
    /\ successes' = [successes EXCEPT ![si] = @ + 1]
    /\ drawn' = [slide |-> si, draw |-> di]
    /\ filename' = r.filename
    /\ pc' = "got"
    /\ UNCHANGED <<equivVars, genVars, tsvVars, slide_files, random_tissue_patch, dir_exists, n, si,
                   di, patch, disk, writes, failures, interrupted, exc>>

\* a file written at path replaces the file that was there
WriteFile(d, path, content) ==
    {f \in d : f.path # path} \cup {[path |-> path, patch |-> content]}

\* lines 180-182 with a _save that succeeds
SaveOk(uuid) ==
    /\ pc = "got"
    /\ uuid \in Uuid4Hex
    /\ dir_exists
    /\ patch' = drawn
    /\ disk' = WriteFile(disk, compose_path(filename, uuid), drawn)
    /\ writes' = Append(writes, [path |-> compose_path(filename, uuid),
                                 patch |-> drawn, named |-> si, by |-> "loop"])
    /\ di' = di + 1
    /\ pc' = "draw"
    /\ drawn' = Unset
    /\ UNCHANGED <<equivVars, genVars, tsvVars, slide_files, random_tissue_patch, dir_exists, n, si,
                   filename, attempts, failures, successes, interrupted, exc>>

\* lines 180-182 with a _save that raises (I/O error, missing directory):
\* caught by "except Exception", which breaks
SaveFail ==
    /\ pc = "got"
    /\ patch' = drawn
    /\ failures' = [failures EXCEPT ![si] = @ + 1]
    /\ si' = break_slide(si, di).si
    /\ di' = break_slide(si, di).di
    /\ pc' = break_slide(si, di).pc
    /\ drawn' = Unset
    /\ UNCHANGED <<equivVars, genVars, tsvVars, slide_files, random_tissue_patch, dir_exists, n,
                   filename, disk, writes, attempts, successes, interrupted, exc>>

\* the slide self.filename was taken from
NamedSlide == IF pc = "got" THEN si ELSE IF patch # Unset THEN patch.slide ELSE 0

\* a KeyboardInterrupt inside the try of run, and its handler (lines
\* 188-191): _compose_path raises on self.filename = None, _save raises when
\* self.patch was never assigned or when the write fails
Interrupt(uuid, save_ok) ==
    /\ pc \in {"slide", "draw", "got"}
    /\ ~interrupted
    /\ uuid \in Uuid4Hex
    /\ save_ok \in BOOLEAN
    /\ interrupted' = TRUE
    /\ IF filename = None
       THEN pc' = "raised" /\ exc' = "TypeError" /\ UNCHANGED <<disk, writes>>
       ELSE IF patch = Unset
       THEN pc' = "raised" /\ exc' = "AttributeError" /\ UNCHANGED <<disk, writes>>
       ELSE IF ~(save_ok /\ dir_exists)
       THEN pc' = "raised" /\ exc' = "OSError" /\ UNCHANGED <<disk, writes>>
       ELSE /\ pc' = "done" /\ exc' = exc
            /\ disk' = WriteFile(disk, compose_path(filename, uuid), patch)
            /\ writes' = Append(writes, [path |-> compose_path(filename, uuid),
                                         patch |-> patch, named |-> NamedSlide,
                                         by |-> "interrupt"])
    /\ UNCHANGED <<equivVars, genVars, tsvVars, slide_files, random_tissue_patch, dir_exists, n, si,
                   di, filename, patch, drawn, attempts, failures, successes>>

NextRun ==
    \/ Construct
    \/ \E k \in 0..MaxN : Run(k)
    \/ NextSlide
    \/ EndSlide
    \/ \E r \in AllDrawResults : DrawFail(r)
    \/ \E r \in AllDrawResults : DrawOk(r)
    \/ \E uuid \in Uuid4Hex : SaveOk(uuid)
    \/ SaveFail
    \/ \E uuid \in Uuid4Hex, save_ok \in BOOLEAN : Interrupt(uuid, save_ok)

SpecRun == InitRun /\ [][NextRun]_vars

----------------------------------------------------------------------------
(* PatchGenerator.__next__ called by several callers *)

NumCallers == 2     \* callers that share one PatchGenerator
MaxCalls == 3       \* __next__ calls made in all
Callers == 1..NumCallers

NoResult == [kind |-> "none"]

\* the slide lists the generator is built on: a path and a (WSI, XML) pair
\* give every kind of draw result
GenSlideEntries == {SlideA, SlidePair}
RECURSIVE GenListsOfLen(_)
GenListsOfLen(k) ==
    IF k = 0 THEN {<<>>}
    ELSE {Append(l, e) : l \in GenListsOfLen(k - 1), e \in GenSlideEntries}
GenSlideLists == UNION {GenListsOfLen(k) : k \in 0..MaxSlides}

InitGen ==
    /\ EquivIdle /\ TsvIdle
    /\ slide_files \in GenSlideLists
    /\ random_tissue_patch \in BOOLEAN
    /\ dir_exists = TRUE
    /\ n = 0 /\ pc = "idle" /\ si = 0 /\ di = 0
    /\ filename = None /\ patch = Unset /\ drawn = Unset
    /\ disk = {} /\ writes = <<>>
    /\ attempts = <<>> /\ failures = <<>> /\ successes = <<>>
    /\ interrupted = FALSE /\ exc = "none"
    /\ gen_i = 0 /\ lock = 0
    /\ tpc = [t \in Callers |-> "idle"]
    /\ tres = [t \in Callers |-> NoResult]
    /\ tidx = [t \in Callers |-> 0 - 1]
    /\ tout = [t \in Callers |-> "none"]
    /\ handed = <<>> /\ attempted = <<>> /\ skipped = {}
    /\ passes = 0 /\ calls = 0

\* a caller enters __next__ and reaches "with self.lock"
Call(t) ==
    /\ tpc[t] = "idle"
    /\ calls < MaxCalls
    /\ calls' = calls + 1
    /\ tpc' = [tpc EXCEPT ![t] = "acquire"]
    /\ tout' = [tout EXCEPT ![t] = "none"]
    /\ UNCHANGED <<equivVars, runVars, tsvVars, gen_i, lock, tres, tidx,
                   handed, attempted, skipped, passes>>

\* a lock that anyone may take
lock_ignored(l) == TRUE
\* threading.Lock.acquire blocks while the lock is held
lock_free(l) == l = 0

\* line 83: entering the with block
Acquire(t) ==
    /\ tpc[t] = "acquire"
    /\ lock_free(lock)
    /\ lock' = t
    /\ tpc' = [tpc EXCEPT ![t] = "test"]
    /\ UNCHANGED <<equivVars, runVars, tsvVars, gen_i, tres, tidx, tout, handed,
                   attempted, skipped, passes, calls>>

\* leaving the with block, by return or by an exception
release(l, t) == IF l = t THEN 0 ELSE l

\* line 84: while self.i < self.n
Test(t) ==
    /\ tpc[t] = "test"
    /\ tpc' = [tpc EXCEPT ![t] = IF gen_i < NumSlides THEN "draw" ELSE "exhausted"]
    /\ UNCHANGED <<equivVars, runVars, tsvVars, gen_i, lock, tres, tidx, tout,
                   handed, attempted, skipped, passes, calls>>

\* lines 86-89: what the draw on self.slide_files[self.i] produces, an
\* IndexError included when self.i is past the end of the list
GenDrawResults ==
    IF gen_i >= NumSlides THEN {Raised("IndexError")}
    ELSE IF random_tissue_patch THEN get_random_tissue_patch(slide_files[gen_i + 1])
    ELSE get_random_patch(slide_files[gen_i + 1])

AllGenResults ==
    {Raised("IndexError")}
        \cup UNION {get_random_tissue_patch(e) \cup get_random_patch(e) :
                        e \in SlideEntries}

\* lines 86-89
Draw(t, r) ==
    /\ tpc[t] = "draw"
    /\ r \in GenDrawResults
    /\ attempted' = Append(attempted, gen_i)
    /\ tidx' = [tidx EXCEPT ![t] = gen_i]
    /\ IF r.kind = "raise"
       THEN /\ tpc' = [tpc EXCEPT ![t] = "except"]
            /\ tres' = tres
            /\ skipped' = skipped \cup {gen_i}
       ELSE /\ tpc' = [tpc EXCEPT ![t] = "advance"]
            /\ tres' = [tres EXCEPT ![t] = r]
            /\ skipped' = skipped
    /\ UNCHANGED <<equivVars, runVars, tsvVars, gen_i, lock, tout, handed, passes,
                   calls>>

\* line 94: isinstance(result, tuple) and result[0] == 'No valid tissue
\* pixels found.'; the first element of a tuple the draws return is a patch
FirstOf(r) == IF r.kind = "tuple" THEN "patch" ELSE "none"
is_invalid_patch(r) ==
    r.kind = "tuple" /\ FirstOf(r) = "No valid tissue pixels found."

\* lines 91-97: self.i += 1, then continue or go on to return
Advance(t) ==
    /\ tpc[t] = "advance"
    /\ gen_i' = gen_i + 1
    /\ tpc' = [tpc EXCEPT ![t] = IF is_invalid_patch(tres[t]) THEN "test" ELSE "return"]
    /\ UNCHANGED <<equivVars, runVars, tsvVars, lock, tres, tidx, tout, handed,
                   attempted, skipped, passes, calls>>

\* an except clause that leaves the cursor where it is
except_stay(i) == i
\* lines 99-104: both except clauses move to the next slide
except_advance(i) == i + 1

\* lines 99-104
Except(t) ==
    /\ tpc[t] = "except"
    /\ gen_i' = except_advance(gen_i)
    /\ tpc' = [tpc EXCEPT ![t] = "test"]
    /\ UNCHANGED <<equivVars, runVars, tsvVars, lock, tres, tidx, tout, handed,
                   attempted, skipped, passes, calls>>

\* line 97: return result, which leaves the with block
Return(t) ==
    /\ tpc[t] = "return"
    /\ handed' = Append(handed, [caller |-> t, index |-> tidx[t],
                                 pass |-> passes, kind |-> tres[t].kind])
    /\ lock' = release(lock, t)
    /\ tout' = [tout EXCEPT ![t] = "value"]
    /\ tres' = [tres EXCEPT ![t] = NoResult]
    /\ tidx' = [tidx EXCEPT ![t] = 0 - 1]
    /\ tpc' = [tpc EXCEPT ![t] = "idle"]
    /\ UNCHANGED <<equivVars, runVars, tsvVars, gen_i, attempted, skipped,
                   passes, calls>>

\* lines 106-108: reset and raise StopIteration, which leaves the with block
Exhausted(t) ==
    /\ tpc[t] = "exhausted"
    /\ gen_i' = 0
    /\ passes' = passes + 1
    /\ attempted' = <<>>
    /\ skipped' = {}
    /\ lock' = release(lock, t)
    /\ tout' = [tout EXCEPT ![t] = "StopIteration"]
    /\ tidx' = [tidx EXCEPT ![t] = 0 - 1]
    /\ tpc' = [tpc EXCEPT ![t] = "idle"]
    /\ UNCHANGED <<equivVars, runVars, tsvVars, tres, handed, calls>>

\* the steps of a call once it is made
InNext(t) ==
    \/ Acquire(t)
    \/ Test(t)
    \/ \E r \in AllGenResults : Draw(t, r)
    \/ Advance(t)
    \/ Except(t)
    \/ Return(t)
    \/ Exhausted(t)

NextGen == \E t \in Callers : Call(t) \/ InNext(t)

SpecGen == InitGen /\ [][NextGen]_vars
\* a caller inside __next__ keeps running: the draws return and a caller
\* waiting for a free lock gets it
SpecGenFair == SpecGen /\ \A t \in Callers : WF_vars(InNext(t))

----------------------------------------------------------------------------
(* compare_tsv_tables, lines 109-119, on one cell *)

InitEquiv ==
    /\ val1 \in Pool /\ val2 \in Pool
    /\ called = FALSE /\ result = FALSE
    /\ row_differences = <<>>
    /\ RunIdle /\ GenIdle /\ TsvIdle

CompareCell ==
    /\ ~called
    /\ called' = TRUE
    /\ result' = values_are_equivalent(val1, val2)
    /\ row_differences' =
          IF ~values_are_equivalent(val1, val2)
          THEN Append(row_differences, [table1_value |-> val1, table2_value |-> val2])
          ELSE row_differences
    /\ UNCHANGED <<val1, val2, runVars, genVars, tsvVars>>

NextEquiv == CompareCell
SpecEquiv == InitEquiv /\ [][NextEquiv]_vars

----------------------------------------------------------------------------
(* compare_tsv_tables, lines 57-129.  A table is its set of columns other  *)
(* than submitter_id and its rows in file order; a row holds its           *)
(* submitter_id and one cell per column (Absent for a column the table     *)
(* lacks).                                                                 *)

MaxRows == 2        \* most rows of a table

Ids == {"p1", "p2"}
ColumnOrder == <<"x", "group">>
XValues == {<<"a">>, <<"A">>, <<"1">>}
Group1 == <<"a">>
Group2 == <<"1">>
Absent == <<>>

RowsOf(cols, g) ==
    {[id |-> id, x |-> vx, group |-> vg] :
        id \in Ids,
        vx \in IF "x" \in cols THEN XValues ELSE {Absent},
        vg \in IF "group" \in cols THEN {g} ELSE {Absent}}

RECURSIVE RowSeqs(_, _, _)
RowSeqs(cols, g, k) ==
    IF k = 0 THEN {<<>>}
    ELSE {Append(rs, r) : rs \in RowSeqs(cols, g, k - 1), r \in RowsOf(cols, g)}

Tables(g) ==
    UNION {{[cols |-> cols, rows |-> rs] :
                rs \in UNION {RowSeqs(cols, g, k) : k \in 0..MaxRows}} :
           cols \in SUBSET {"x", "group"}}

InitTsv ==
    /\ EquivIdle /\ RunIdle /\ GenIdle
    /\ table1 \in Tables(Group1)
    /\ table2 \in Tables(Group2)
    /\ cmp_pc = "idle"
    /\ common_ids = {} /\ only_in_df1 = {} /\ only_in_df2 = {}
    /\ processed = {} /\ differences_found = <<>> /\ results = NoResults

\* set(df_indexed.index)
IndexSet(t) == {t.rows[k].id : k \in 1..Len(t.rows)}
\* df_indexed.loc[submitter_id]: the rows with that index value
Loc(t, id) == {k \in 1..Len(t.rows) : t.rows[k].id = id}
\* row[col] of the single row with that index value
CellOf(t, id, col) ==
    LET r == t.rows[CHOOSE k \in Loc(t, id) : TRUE]
    IN  IF col = "x" THEN r.x ELSE r.group

\* lines 73-94
StartCompare ==
    /\ cmp_pc = "idle"
    /\ common_ids' = IndexSet(table1) \cap IndexSet(table2)
    /\ only_in_df1' = IndexSet(table1) \ IndexSet(table2)
    /\ only_in_df2' = IndexSet(table2) \ IndexSet(table1)
    /\ results' = [total_common |-> Cardinality(IndexSet(table1) \cap IndexSet(table2)),
                   only_in_table1 |-> IndexSet(table1) \ IndexSet(table2),
                   only_in_table2 |-> IndexSet(table2) \ IndexSet(table1),
                   differences |-> <<>>,
                   identical_rows |-> 0]
    /\ differences_found' = <<>>
    /\ processed' = {}
    /\ cmp_pc' = "loop"
    /\ UNCHANGED <<equivVars, runVars, genVars, table1, table2>>

\* the shared columns, 'group' among them
columns_shared(t1, t2) ==
    SelectSeq(ColumnOrder, LAMBDA col : col \in t1.cols /\ col \in t2.cols)
\* line 107
columns_to_compare(t1, t2) ==
    SelectSeq(ColumnOrder,
              LAMBDA col : col \in t1.cols /\ col \in t2.cols /\ col # "group")

\* lines 104-119: the differences of one row
RowDifferences(id) ==
    LET cols == columns_to_compare(table1, table2)
        differs(col) ==
            ~values_are_equivalent(CellOf(table1, id, col), CellOf(table2, id, col))
        entry(col) == [column |-> col,
                       table1_value |-> CellOf(table1, id, col),
                       table2_value |-> CellOf(table2, id, col)]
        kept == SelectSeq(cols, differs)
    IN  [k \in 1..Len(kept) |-> entry(kept[k])]

\* lines 99-127 for one submitter_id of common_ids (a set: any order).  When
\* the id is on several rows of a table, .loc gives a DataFrame and the
\* test "if pd.notna(row[col])" of lines 110-111 raises ValueError.
CompareRow(id) ==
    /\ cmp_pc = "loop"
    /\ id \in common_ids \ processed
    /\ processed' = processed \cup {id}
    /\ IF /\ Cardinality(Loc(table1, id)) > 1 \/ Cardinality(Loc(table2, id)) > 1
          /\ columns_to_compare(table1, table2) # <<>>
       THEN cmp_pc' = "raised" /\ UNCHANGED <<differences_found, results>>
       ELSE /\ cmp_pc' = cmp_pc
            /\ IF columns_to_compare(table1, table2) # <<>>
                  /\ RowDifferences(id) # <<>>
               THEN /\ differences_found' =
                          Append(differences_found,
                                 [submitter_id |-> id,
                                  differences |-> RowDifferences(id)])
                    /\ results' = results
               ELSE /\ differences_found' = differences_found
                    /\ results' = [results EXCEPT !.identical_rows = @ + 1]
    /\ UNCHANGED <<equivVars, runVars, genVars, table1, table2, common_ids,
                   only_in_df1, only_in_df2>>

\* line 129 and the return of line 183
FinishCompare ==
    /\ cmp_pc = "loop"
    /\ processed = common_ids
    /\ results' = [results EXCEPT !.differences = differences_found]
    /\ cmp_pc' = "done"
    /\ UNCHANGED <<equivVars, runVars, genVars, table1, table2, common_ids,
                   only_in_df1, only_in_df2, processed, differences_found>>

NextTsv ==
    \/ StartCompare
    \/ \E id \in Ids : CompareRow(id)
    \/ FinishCompare

SpecTsv == InitTsv /\ [][NextTsv]_vars

----------------------------------------------------------------------------
(* Claims about values_are_equivalent, checked under SpecEquiv *)

\* s occurs in t as a contiguous block
SubstringOf(s, t) ==
    \E u \in 0..Len(t), v \in 0..Len(t) :
        /\ u + Len(s) + v = Len(t)
        /\ \A k \in 1..Len(s) : t[u + k] = s[k]

\* C1: values_are_equivalent is reflexive and symmetric over strings: a
\* call on (a, a) returns True and a call on (a, b) returns what the call
\* on (b, a) returns.
ThmC1_ReflexiveSymmetric ==
    called =>
        /\ (val1 = val2 => result = TRUE)
        /\ result = values_are_equivalent(val2, val1)
WitC1_SymmetricContainment ==
    /\ called /\ result = TRUE
    /\ val1 = Stad /\ val2 = TcgaStad

\* C2: values_are_equivalent("Male", "Female") returns False and the pair
\* is recorded as a difference by compare_tsv_tables.
CexC2_MaleFemaleDiffer ==
    (called /\ val1 = Male /\ val2 = Female) =>
        (result = FALSE /\ Len(row_differences) = 1)

\* C3: whenever the lower-cased form of one string is a substring of the
\* lower-cased form of the other, values_are_equivalent returns True.
ThmC3_SubstringEquivalent ==
    (called /\ (SubstringOf(Lower(val1), Lower(val2))
                \/ SubstringOf(Lower(val2), Lower(val1))))
        => result = TRUE
WitC3_TcgaStad ==
    /\ called /\ result = TRUE
    /\ val1 = TcgaStad /\ val2 = Stad
    /\ ParseFloat(val1).kind = "err"

\* two parsed values that are numbers (not NaN) and equal within 1e-6
WithinTolerance(x, y) ==
    \/ x.kind = "fin" /\ y.kind = "fin" /\ Abs(Diff(x, y)) <= Tolerance
    \/ x.kind = "inf" /\ y.kind = "inf" /\ x.sign = y.sign

\* C4 as stated: two strings that both parse as numbers whose values are
\* equal within 1e-6 (the bound included, equal infinities included) are
\* equivalent.
CexC4_WithinToleranceEquivalent ==
    (called /\ WithinTolerance(ParseFloat(val1), ParseFloat(val2)))
        => result = TRUE

\* C4 amended: two strings that both parse as finite numbers whose values
\* differ by strictly less than 1e-6 are equivalent, whatever their text.
ThmC4_BelowToleranceEquivalent ==
    (called /\ ParseFloat(val1).kind = "fin" /\ ParseFloat(val2).kind = "fin"
            /\ Abs(Diff(ParseFloat(val1), ParseFloat(val2))) < Tolerance)
        => result = TRUE
WitC4_OnlyNumericallyClose ==
    /\ called /\ result = TRUE
    /\ val1 = <<"1","e","-","7">> /\ val2 = <<"0">>
    /\ Diff(ParseFloat(val1), ParseFloat(val2)) = 10
    /\ ~EitherContains(val1, val2)

----------------------------------------------------------------------------
(* Claims about OfflinePatcher, checked under SpecRun *)

\* a file name without its extension: cut at its last dot, when a character
\* other than a dot precedes that dot
WithoutExt(name) ==
    LET cuts == {k \in 1..Len(name) :
                    /\ name[k] = "."
                    /\ \A j \in (k + 1)..Len(name) : name[j] # "."
                    /\ \E j \in 1..(k - 1) : name[j] # "."}
    IN  IF cuts = {} THEN name ELSE SubSeq(name, 1, (CHOOSE k \in cuts : TRUE) - 1)

\* the file name of a slide of the list
SlideFileName(s) ==
    LET path == slide_files[s].path
        seps == {k \in 1..Len(path) : path[k] = "/"}
    IN  IF seps = {} THEN path
        ELSE SubSeq(path, (CHOOSE k \in seps : \A j \in seps : j <= k) + 1, Len(path))

\* path is <TargetDir>/<stem>_<id>.png with id 5 hexadecimal characters
NamedAfter(path, stem) ==
    LET prefix == TargetDir \o <<"/">> \o stem \o <<"_">>
        k == Len(prefix)
    IN  /\ Len(path) = k + 5 + 4
        /\ SubSeq(path, 1, k) = prefix
        /\ \A j \in (k + 1)..(k + 5) : path[j] \in HexChars
        /\ SubSeq(path, k + 6, k + 9) = <<".", "p", "n", "g">>

\* files on disk that hold a patch drawn from slide s
FilesOf(s) == {f \in disk : f.patch.slide = s}
\* saves completed by the loop of run for slide s
LoopSaves(s) ==
    Cardinality({i \in 1..Len(writes) :
                    writes[i].by = "loop" /\ writes[i].patch.slide = s})

\* C5: within one run (here: one that no interrupt ended) no two saved
\* patches are written to the same path.
CexC5_NoPathWrittenTwice ==
    ~interrupted => \A i \in 1..Len(writes), j \in 1..Len(writes) :
        i # j => writes[i].path # writes[j].path

\* C6 as stated: every saved file is <target_dir>/<name>_<id>.png, where
\* name is the slide's file name without its extension and id is 5
\* hexadecimal characters, and target_dir exists.
CexC6_NameWithoutExtension ==
    \A i \in 1..Len(writes) :
        /\ dir_exists
        /\ NamedAfter(writes[i].path, WithoutExt(SlideFileName(writes[i].named)))

\* C6 amended: every saved file is <target_dir>/<name>_<id>.png, where name
\* is the slide's file name with its last two extensions removed and id is 5
\* hexadecimal characters, and target_dir exists; a file saved by the loop
\* is named after the slide its patch was drawn from.
ThmC6_NameWithoutTwoExtensions ==
    \A i \in 1..Len(writes) :
        /\ dir_exists
        /\ NamedAfter(writes[i].path,
                      WithoutExt(WithoutExt(SlideFileName(writes[i].named))))
        /\ writes[i].by = "loop" => writes[i].named = writes[i].patch.slide
WitC6_TwoExtensionSlideSaved ==
    \E i \in 1..Len(writes) :
        /\ writes[i].by = "loop"
        /\ slide_files[writes[i].named] = SlideADir
        /\ writes[i].path = <<"t","/","a","_","f","f","f","f","f",".","p","n","g">>

\* C7: in an uninterrupted run each slide gets at most n draw attempts, one
\* file is on disk for each patch the loop saved, a finished slide whose n
\* draws all succeeded has exactly n files, and at most n*k files exist.
CexC7_NFilesPerSlide ==
    ~interrupted =>
        /\ \A s \in 1..NumSlides :
              /\ attempts[s] <= n
              /\ Cardinality(FilesOf(s)) = LoopSaves(s)
              /\ (s < si /\ successes[s] = n /\ failures[s] = 0)
                    => Cardinality(FilesOf(s)) = n
        /\ Cardinality(disk) <= n * NumSlides

\* C8: a failure while reading or saving never aborts run(n), n > 0: no
\* exception leaves run unless an interrupt arrived, and a run that ends
\* has been through every slide of the list.
CexC8_FailureNeverAborts ==
    (~interrupted /\ n > 0) =>
        /\ pc # "raised"
        /\ pc = "done" => si = NumSlides + 1

\* C9: a slide is left only on repeated failure: a slide the loop has left
\* after a single failure has had all its n attempts.
CexC9_SingleFailureKeepsDrawing ==
    \A s \in 1..NumSlides :
        (s < si /\ failures[s] = 1) => attempts[s] = n

\* C10: an interrupt during run(n), n > 0, over a non-empty slide list
\* triggers a final save of the last patch and run returns normally.
CexC10_InterruptSavesAndReturns ==
    (interrupted /\ NumSlides > 0 /\ n > 0) =>
        /\ pc = "done" /\ exc = "none"
        /\ writes # <<>> /\ writes[Len(writes)].by = "interrupt"

----------------------------------------------------------------------------
(* Claims about PatchGenerator.__next__, checked under SpecGen and         *)
(* SpecGenFair                                                             *)

\* the positions of __next__ inside the with block
InWith == {"test", "draw", "advance", "except", "return", "exhausted"}

LockGuardsCursor ==
    /\ \A t \in Callers : tpc[t] \in InWith => lock = t
    /\ \A t \in Callers : tpc[t] \notin InWith => lock # t
    /\ gen_i >= 0 /\ gen_i <= NumSlides
    /\ \A a \in 1..Len(handed), b \in 1..Len(handed) :
          (a # b /\ handed[a].pass = handed[b].pass)
              => handed[a].index # handed[b].index

\* C11: under any interleaving of __next__ calls the cursor is read and
\* advanced only by the caller holding the lock, 0 <= i <= n always holds,
\* no slide index is handed to two callers within one pass, the lock is
\* released on return and on StopIteration, and a caller waiting for the
\* lock ends its call.
ThmC11_LockGuardsCursor ==
    /\ []LockGuardsCursor
    /\ \A t \in Callers : (tpc[t] = "acquire") ~> (tpc[t] = "idle")
WitC11_TwoCallersOnePass ==
    \E t \in Callers, u \in Callers :
        /\ tpc[t] = "acquire"
        /\ lock = u /\ tpc[u] = "return"
        /\ \E a \in 1..Len(handed) :
              /\ handed[a].caller = t
              /\ handed[a].pass = passes
              /\ handed[a].index # tidx[u]

\* C12: __next__ never returns the 'No tumor annotations found.' marker:
\* every value it returns is a tuple.
CexC12_OnlyTuplesReturned ==
    \A a \in 1..Len(handed) : handed[a].kind = "tuple"

\* the draws since the latest reset were made at cursor values 0, 1, 2, ...
\* and the cursor is one past the latest draw once the iteration has
\* advanced it
OnePassInOrder ==
    /\ \A k \in 1..Len(attempted) : attempted[k] = k - 1
    /\ \A t \in Callers :
          /\ tpc[t] \in {"test", "draw", "return", "exhausted"}
                => gen_i = Len(attempted)
          /\ tpc[t] \in {"advance", "except"} => gen_i = Len(attempted) - 1
          /\ tpc[t] = "exhausted" => gen_i = NumSlides
    /\ \A a \in 1..Len(handed) :
          handed[a].pass = passes => handed[a].index \notin skipped

\* C13: one pass attempts every slide exactly once in list order, each
\* iteration moving the cursor by one whether the draw succeeds or raises; a
\* slide whose draw raised is not returned; the reset to 0 with
\* StopIteration happens when all n slides were attempted; every call ends.
ThmC13_OnePassInOrder ==
    /\ []OnePassInOrder
    /\ [][passes' # passes =>
            (Len(attempted) = NumSlides /\ gen_i = NumSlides /\ gen_i' = 0)]_vars
    /\ \A t \in Callers : (tpc[t] \in InWith) ~> (tpc[t] = "idle")
WitC13_SecondPassAfterSkip ==
    /\ passes = 1
    /\ \E a \in 1..Len(handed) : handed[a].pass = 0
    /\ attempted = <<0, 1>> /\ skipped = {0}
    /\ \E t \in Callers : tpc[t] = "return" /\ tidx[t] = 1

----------------------------------------------------------------------------
(* Claims about compare_tsv_tables, checked under SpecTsv *)

\* the ids of a table, and the columns both tables have other than 'group'
IdsOf(t) == {id \in Ids : \E k \in 1..Len(t.rows) : t.rows[k].id = id}
SharedNonGroup == (table1.cols \cap table2.cols) \ {"group"}
DifferingIds ==
    {results.differences[k].submitter_id : k \in 1..Len(results.differences)}

\* C14: the common ids, the ids only in table 1 and the ids only in table 2
\* are pairwise disjoint and cover the ids of both tables; in the returned
\* results identical_rows + len(differences) = total_common, and a common id
\* is in differences exactly when some shared column other than 'group'
\* holds values that are not equivalent.
ThmC14_EveryIdClassifiedOnce ==
    /\ cmp_pc \in {"loop", "done", "raised"} =>
          /\ common_ids \cap only_in_df1 = {}
          /\ common_ids \cap only_in_df2 = {}
          /\ only_in_df1 \cap only_in_df2 = {}
          /\ common_ids \cup only_in_df1 \cup only_in_df2
                = IdsOf(table1) \cup IdsOf(table2)
          /\ \A id \in common_ids : id \in IdsOf(table1) /\ id \in IdsOf(table2)
          /\ \A id \in only_in_df1 : id \in IdsOf(table1)
          /\ \A id \in only_in_df2 : id \in IdsOf(table2)
          /\ results.only_in_table1 = only_in_df1
          /\ results.only_in_table2 = only_in_df2
          /\ results.total_common = Cardinality(common_ids)
    /\ cmp_pc = "done" =>
          /\ results.identical_rows + Len(results.differences)
                = results.total_common
          /\ Cardinality(DifferingIds) = Len(results.differences)
          /\ \A id \in common_ids :
                id \in DifferingIds <=>
                    \E col \in SharedNonGroup :
                        ~values_are_equivalent(CellOf(table1, id, col),
                                               CellOf(table2, id, col))
WitC14_IdenticalAndDifferent ==
    /\ cmp_pc = "done"
    /\ results.identical_rows = 1 /\ Len(results.differences) = 1
    /\ "group" \in table1.cols \cap table2.cols
    /\ "x" \in SharedNonGroup

====
